---- MODULE Spec2Model ----
(***************************************************************************)
(* The satellite-group cache / fetch / cancel pipeline of the tracker:     *)
(*   src/src/widgets/satellite_groups.rs  (SatelliteGroupsState, handlers) *)
(*   src/src/group.rs                     (Group::get_elements)            *)
(*   src/src/widgets/world_map.rs         (selected / hovered roster index)*)
(*   src/src/object.rs, src/src/utils.rs  (from_elements, predict callers) *)
(* The foreground event loop runs one handler at a time (Click, Update);   *)
(* every spawned tokio task runs Group::get_elements one await point at a  *)
(* time and then sends its UpdateResult on the unbounded channel.          *)
(***************************************************************************)
EXTENDS Integers, Sequences, FiniteSets, TLC

(* ------------------------------ bounds -------------------------------- *)
\* number of configured group entries
NumEntries == 2
\* total number of tasks tokio::spawn may create in one run
MaxTasks == 2
\* largest element list the catalog answers with
MaxElems == 1
\* the clock stops here
MaxTime == 1
\* longest scanned window and longest orbital period, in minutes
MaxMinutes == 3
\* largest configured cache lifetime (same unit as the clock)
MaxLifetime == 1

VARIABLES
    list_entries,         \* SatelliteGroupsState::list_entries : Vec<Entry>
    objects,              \* SatelliteGroupsState::objects      : Vec<Object>
    update_channel,       \* the mpsc channel update_sender -> update_receiver
    last_update_instant,  \* SatelliteGroupsState::last_update_instant
    cache_lifetime,       \* SatelliteGroupsState::cache_lifetime
    tasks,                \* the tasks tokio::spawn created, by spawn order
    cache,                \* the cache files under temp_dir()/tracker
    now,                  \* the clock (Instant::now / SystemTime::now)
    left_from,            \* history: the state an entry was in when last deselected
    selected_object_index,  \* WorldMapState::selected_object_index
    hovered_object_index,   \* WorldMapState::hovered_object_index
    unpropagatable,       \* the element sets sgp4::Constants::from_elements rejects
    crashed,              \* the foreground loop panicked
    calc                  \* one run of a utils.rs calculation over an object

vars == <<list_entries, objects, update_channel, last_update_instant,
          cache_lifetime, tasks, cache, now, left_from,
          selected_object_index, hovered_object_index, unpropagatable, crashed, calc>>

(* --------------------------- configuration ---------------------------- *)
\* SatelliteGroupsConfig::default().groups, the first entries
ConfigGroups ==
    << [label |-> "ISS",     id |-> "1998-067A", group |-> "-"],
       [label |-> "Weather", id |-> "-",         group |-> "weather"],
       [label |-> "CSS",     id |-> "2021-035A", group |-> "-"],
       [label |-> "NOAA",    id |-> "-",         group |-> "noaa"] >>

\* impl From<GroupConfig> for Group
GroupFrom(config) ==
    IF config.id # "-"
      THEN [label |-> config.label, identifier |-> [kind |-> "Id", name |-> config.id]]
      ELSE [label |-> config.label, identifier |-> [kind |-> "Group", name |-> config.group]]

\* str::to_lowercase on the identifiers in use
ToLowercase(s) ==
    CASE s = "1998-067A" -> "1998-067a"
      [] s = "2021-035A" -> "2021-035a"
      [] OTHER -> s

\* impl Display for Identifier
IdentifierToString(identifier) == identifier.name

\* the cache file of a group: temp_dir()/tracker/<identifier, lowercased>.json
CachePath(group) == ToLowercase(IdentifierToString(group.identifier))

Indices == 1..NumEntries
CachePaths == { CachePath(GroupFrom(ConfigGroups[i])) : i \in Indices }

(* ------------------------------ values -------------------------------- *)
NoHandle == 0
\* Option<usize>::None of a roster index (roster positions count from 1 here)
NoIndex == 0
\* Option<DateTime<Utc>>::None
NoTime == 0 - 1
\* no calculation is running; a running one keeps the function's locals: the
\* loop variable (time), the window end or the period (limit), current_pass_start,
\* the vector built so far (out) and, as history, the outcomes predict gave (seen)
NoCalc == [fn |-> "-", status |-> "-", time |-> 0, limit |-> 0,
           current_pass_start |-> NoTime, out |-> <<>>, seen |-> <<>>]
NoFile == [exists |-> FALSE, n |-> 0, mtime |-> 0]
File(n, mtime) == [exists |-> TRUE, n |-> n, mtime |-> mtime]

\* Option<Vec<sgp4::Elements>>: a list is known by its length
None == [some |-> FALSE, n |-> 0]
Some(n) == [some |-> TRUE, n |-> n]

\* impl From<Group> for Entry
EntryFrom(group) ==
    [group |-> group, selected |-> FALSE, loading |-> FALSE, abort_handle |-> NoHandle]

\* the await points of the task body (a task is cancelled only at one of them)
Awaiting == {"start", "fetch1", "age", "fetch2", "read"}

\* the task spawned by load_entry; existed, expired, failed and net are history
NewTask(index) ==
    [index |-> index, pc |-> "start", cancelled |-> FALSE, res |-> None,
     existed |-> "?", expired |-> "?", failed |-> "no", net |-> 0]

\* a task that will not run again keeps only its entry, how it ended and whether
\* abort was called on it
Retired(task, pc) == [NewTask(task.index) EXCEPT !.pc = pc, !.cancelled = task.cancelled]

\* elements.into_iter().map(Object::from_elements); entry is the provenance
Materialize(result) ==
    [k \in 1..result.elements.n |-> [entry |-> result.index, id |-> k]]

(* ---------------------- SatelliteGroupsState methods ------------------ *)
\* s is the foreground state [list_entries, objects, tasks]

\* load_entry that spawns the task but forgets entry.loading = true
load_entry_no_flag(s, index) ==
    [s EXCEPT !.list_entries[index].abort_handle = Len(s.tasks) + 1,
              !.tasks = Append(@, NewTask(index))]

\* SatelliteGroupsState::load_entry
load_entry(s, index) ==
    [s EXCEPT !.list_entries[index].loading = TRUE,
              !.list_entries[index].abort_handle = Len(s.tasks) + 1,
              !.tasks = Append(@, NewTask(index))]

\* AbortHandle::abort: cancels the task at its await point, no effect once it finished
abort(ts, handle) ==
    IF ts[handle].pc \in Awaiting
      THEN [ts EXCEPT ![handle] = [Retired(@, "aborted") EXCEPT !.cancelled = TRUE]]
      ELSE [ts EXCEPT ![handle].cancelled = TRUE]

\* cancel_entry_loading that takes the handle but never calls abort on it
cancel_entry_loading_no_abort(s, index) ==
    [s EXCEPT !.list_entries[index].abort_handle = NoHandle,
              !.list_entries[index].loading = FALSE]

\* cancel_entry_loading that aborts through the handle but leaves it in the entry
cancel_entry_loading_keeps_handle(s, index) ==
    LET handle == s.list_entries[index].abort_handle
        s1 == IF handle # NoHandle THEN [s EXCEPT !.tasks = abort(@, handle)] ELSE s
    IN  [s1 EXCEPT !.list_entries[index].loading = FALSE]

\* cancel_entry_loading that aborts the task but leaves entry.loading set
cancel_entry_loading_keeps_loading(s, index) ==
    LET handle == s.list_entries[index].abort_handle
    IN  IF handle # NoHandle
          THEN [s EXCEPT !.tasks = abort(@, handle),
                         !.list_entries[index].abort_handle = NoHandle]
          ELSE s

\* SatelliteGroupsState::cancel_entry_loading
cancel_entry_loading(s, index) ==
    LET handle == s.list_entries[index].abort_handle
        s1 == IF handle # NoHandle
                THEN [s EXCEPT !.tasks = abort(@, handle),
                               !.list_entries[index].abort_handle = NoHandle]
                ELSE s
    IN  [s1 EXCEPT !.list_entries[index].loading = FALSE]

RECURSIVE reload_from_all(_, _)
\* the for loop of reload_selected_entries without its test of entry.selected
reload_from_all(s, index) ==
    IF index > Len(s.list_entries)
      THEN s
      ELSE reload_from_all(load_entry(s, index), index + 1)

RECURSIVE reload_from(_, _)
\* the for loop of reload_selected_entries
reload_from(s, index) ==
    IF index > Len(s.list_entries)
      THEN s
      ELSE reload_from(IF s.list_entries[index].selected
                         THEN load_entry(s, index)
                         ELSE s,
                       index + 1)

\* reload_selected_entries that forgets objects.clear()
reload_selected_entries_keeps_roster(s) == reload_from(s, 1)

\* SatelliteGroupsState::reload_selected_entries
reload_selected_entries(s) == reload_from([s EXCEPT !.objects = <<>>], 1)

\* poll_result that marks the entry selected when elements arrive
poll_result_selects(s, result) ==
    LET s1 == [s EXCEPT !.list_entries[result.index].loading = FALSE,
                        !.list_entries[result.index].abort_handle = NoHandle,
                        !.tasks[result.task] = Retired(@, "polled")]
    IN  IF result.elements.some
          THEN [s1 EXCEPT !.objects = @ \o Materialize(result),
                          !.list_entries[result.index].selected = TRUE]
          ELSE [s1 EXCEPT !.list_entries[result.index].selected = FALSE]

\* poll_result that leaves the selection alone when the fetch failed
poll_result_keeps_selection(s, result) ==
    LET s1 == [s EXCEPT !.list_entries[result.index].loading = FALSE,
                        !.list_entries[result.index].abort_handle = NoHandle,
                        !.tasks[result.task] = Retired(@, "polled")]
    IN  IF result.elements.some
          THEN [s1 EXCEPT !.objects = @ \o Materialize(result)]
          ELSE s1

\* the body of the while loop of poll_entry_updates, for one received result
poll_result(s, result) ==
    LET s1 == [s EXCEPT !.list_entries[result.index].loading = FALSE,
                        !.list_entries[result.index].abort_handle = NoHandle,
                        !.tasks[result.task] = Retired(@, "polled")]
    IN  IF result.elements.some
          THEN [s1 EXCEPT !.objects = @ \o Materialize(result)]
          ELSE [s1 EXCEPT !.list_entries[result.index].selected = FALSE]

RECURSIVE poll_from(_, _)
poll_from(s, rx) ==
    IF rx = <<>> THEN s ELSE poll_from(poll_result(s, Head(rx)), Tail(rx))

\* SatelliteGroupsState::poll_entry_updates: drains the channel
poll_entry_updates(s) == poll_from(s, update_channel)

Fg == [list_entries |-> list_entries, objects |-> objects, tasks |-> tasks]

(* ------------------------------- Init --------------------------------- *)
\* SatelliteGroupsState::with_config; the cache directory survives restarts
Init ==
    /\ list_entries = [i \in Indices |-> EntryFrom(GroupFrom(ConfigGroups[i]))]
    /\ objects = <<>>
    /\ update_channel = <<>>
    /\ last_update_instant = 0
    /\ cache_lifetime \in 0..MaxLifetime
    /\ tasks = <<>>
    /\ cache \in [CachePaths -> {NoFile, File(MaxElems, 0 - MaxLifetime)}]
    /\ now = 0
    /\ left_from = [i \in Indices |-> "-"]
    /\ selected_object_index = NoIndex
    /\ hovered_object_index = NoIndex
    /\ unpropagatable = {}
    /\ crashed = FALSE
    /\ calc = NoCalc

(* ------------------------- foreground handlers ------------------------ *)
\* what the entry shows: the icon chosen in SatelliteGroups::list
StateOf(entry) ==
    IF entry.loading THEN "Loading" ELSE IF entry.selected THEN "Selected" ELSE "Unselected"

\* App::handle_event for MouseEventKind::Down(MouseButton::Left) on the hovered
\* entry (list_state.selected() = Some(index)): world_map::handle_mouse_event sees
\* the mouse outside the map and drops the hovered index, then
\* satellite_groups::handle_mouse_event toggles the entry
Click(index) ==
    LET was_selected == list_entries[index].selected
        s0 == [Fg EXCEPT !.list_entries[index].selected = ~was_selected]
        s1 == IF was_selected
                THEN reload_selected_entries(cancel_entry_loading(s0, index))
                ELSE load_entry(s0, index)
    IN  /\ ~crashed
        /\ Len(s1.tasks) <= MaxTasks
        /\ list_entries' = s1.list_entries
        /\ objects' = s1.objects
        /\ tasks' = s1.tasks
        /\ left_from' = [left_from EXCEPT ![index] =
                            IF was_selected THEN StateOf(list_entries[index]) ELSE "-"]
        /\ selected_object_index' = NoIndex
        /\ hovered_object_index' = NoIndex
        /\ UNCHANGED <<update_channel, last_update_instant, cache_lifetime, cache, now,
                       unpropagatable, crashed, calc>>

\* sgp4::Constants::from_elements(&elements) is Ok for element set k of entry index
Propagatable(index, k) == <<index, k>> \notin unpropagatable

\* Object::from_elements unwraps the constants: mapping it over the elements of a
\* result panics when one of the element sets is rejected
from_elements_panics(result) ==
    /\ result.elements.some
    /\ \E k \in 1..result.elements.n : ~Propagatable(result.index, k)

\* handle_update_event that refreshes only once more than a cache lifetime has
\* elapsed (> for >=)
Update_refreshes_late ==
    LET s1 == poll_entry_updates(Fg)
        due == now - last_update_instant > cache_lifetime
        s2 == IF due THEN reload_selected_entries(s1) ELSE s1
    IN  /\ ~crashed
        /\ IF \E k \in 1..Len(update_channel) : from_elements_panics(update_channel[k])
             THEN /\ crashed' = TRUE
                  /\ UNCHANGED <<list_entries, objects, tasks, update_channel,
                                 last_update_instant>>
             ELSE /\ Len(s2.tasks) <= MaxTasks
                  /\ list_entries' = s2.list_entries
                  /\ objects' = s2.objects
                  /\ tasks' = s2.tasks
                  /\ update_channel' = <<>>
                  /\ last_update_instant' = IF due THEN now ELSE last_update_instant
                  /\ crashed' = crashed
        /\ UNCHANGED <<cache_lifetime, cache, now, left_from, selected_object_index,
                       hovered_object_index, unpropagatable, calc>>

\* handle_update_event; a panic in poll_entry_updates unwinds the event loop, and
\* nothing of the dead process is observed afterwards
Update ==
    LET s1 == poll_entry_updates(Fg)
        due == now - last_update_instant >= cache_lifetime
        s2 == IF due THEN reload_selected_entries(s1) ELSE s1
    IN  /\ ~crashed
        /\ IF \E k \in 1..Len(update_channel) : from_elements_panics(update_channel[k])
             THEN /\ crashed' = TRUE
                  /\ UNCHANGED <<list_entries, objects, tasks, update_channel,
                                 last_update_instant>>
             ELSE /\ Len(s2.tasks) <= MaxTasks
                  /\ list_entries' = s2.list_entries
                  /\ objects' = s2.objects
                  /\ tasks' = s2.tasks
                  /\ update_channel' = <<>>
                  /\ last_update_instant' = IF due THEN now ELSE last_update_instant
                  /\ crashed' = crashed
        /\ UNCHANGED <<cache_lifetime, cache, now, left_from, selected_object_index,
                       hovered_object_index, unpropagatable, calc>>

\* time passes
Tick ==
    /\ now < MaxTime
    /\ now' = now + 1
    /\ UNCHANGED <<list_entries, objects, update_channel, last_update_instant,
                   cache_lifetime, tasks, cache, left_from, selected_object_index,
                   hovered_object_index, unpropagatable, crashed, calc>>

(* ------------------- the task body: Group::get_elements --------------- *)
TaskGroup(t) == list_entries[tasks[t].index].group
TaskPath(t) == CachePath(TaskGroup(t))

\* tx.send(UpdateResult { index, elements })
SendResult(t, elements) ==
    Append(update_channel, [index |-> tasks[t].index, elements |-> elements, task |-> t])

\* a task runs while the process lives and touches nothing of the foreground
fg_unchanged ==
    /\ ~crashed
    /\ UNCHANGED <<list_entries, objects, last_update_instant, cache_lifetime, now,
                   left_from, selected_object_index, hovered_object_index,
                   unpropagatable, crashed, calc>>

\* the expiry test one unit late: a record one unit past the lifetime still counts
\* as valid
is_cache_expired_late(age, lifetime) == age > lifetime + 1

\* is_cache_expired = age > cache_lifetime
is_cache_expired(age, lifetime) == age > lifetime

\* get_elements that refreshes the record whatever its age
after_age_check_always_fetches(task, file) ==
    [task EXCEPT !.pc = "fetch2", !.expired = "yes"]

\* the tail of get_elements from fs::metadata on: where it goes and what it saw
after_age_check(task, file) ==
    LET age == now - file.mtime
        expired == is_cache_expired(age, cache_lifetime)
    IN  [task EXCEPT !.pc = IF expired THEN "fetch2" ELSE "read",
                     !.expired = IF expired THEN "yes" ELSE "no"]

\* create_dir_all, then try_exists decides whether the first fetch is needed; when
\* the file exists, fs::metadata follows with nothing in between that another
\* task or the clock could change the outcome of without also preceding try_exists
TaskStart(t) ==
    /\ tasks[t].pc = "start"
    /\ LET file == cache[TaskPath(t)]
       IN  tasks' = [tasks EXCEPT ![t] =
                        IF file.exists
                          THEN after_age_check([@ EXCEPT !.existed = "yes"], file)
                          ELSE [@ EXCEPT !.pc = "fetch1", !.existed = "no"]]
    /\ UNCHANGED <<update_channel, cache>>
    /\ fg_unchanged

\* where get_elements goes after a fetch that returned Some: the write, then on
next_after_write(pc) == IF pc = "fetch1" THEN "age" ELSE "read"

\* get_elements that uses the fetched elements without writing the cache file
TaskFetchOk_no_write(t, n) ==
    /\ tasks[t].pc \in {"fetch1", "fetch2"}
    /\ tasks' = [tasks EXCEPT ![t].pc = next_after_write(tasks[t].pc),
                              ![t].net = @ + 1]
    /\ UNCHANGED <<update_channel, cache>>
    /\ fg_unchanged

\* fetch_elements returns Some(elements): the cache file is written
TaskFetchOk(t, n) ==
    /\ tasks[t].pc \in {"fetch1", "fetch2"}
    /\ cache' = [cache EXCEPT ![TaskPath(t)] = File(n, now)]
    /\ tasks' = [tasks EXCEPT ![t].pc = next_after_write(tasks[t].pc),
                              ![t].net = @ + 1]
    /\ UNCHANGED update_channel
    /\ fg_unchanged

\* get_elements that gives up with None after any failed fetch
returns_none_always(pc) == TRUE

\* what get_elements does when fetch_elements returned None at pc:
\* TRUE when it returns None at once, FALSE when it goes on to read the cache
returns_none_on_failure(pc) == pc = "fetch1"

\* get_elements that leaves an empty record behind when the request failed
TaskFetchFail_writes_empty(t) ==
    /\ tasks[t].pc \in {"fetch1", "fetch2"}
    /\ tasks' = [tasks EXCEPT ![t].pc = "done", ![t].res = None,
                              ![t].failed = tasks[t].pc, ![t].net = @ + 1]
    /\ update_channel' = SendResult(t, None)
    /\ cache' = [cache EXCEPT ![TaskPath(t)] = File(0, now)]
    /\ fg_unchanged

\* fetch_elements returns None (request error, timeout, unparsable response)
TaskFetchFail(t) ==
    /\ tasks[t].pc \in {"fetch1", "fetch2"}
    /\ IF returns_none_on_failure(tasks[t].pc)
         THEN /\ tasks' = [tasks EXCEPT ![t].pc = "done", ![t].res = None,
                                        ![t].failed = tasks[t].pc, ![t].net = @ + 1]
              /\ update_channel' = SendResult(t, None)
         ELSE /\ tasks' = [tasks EXCEPT ![t].pc = "read",
                                        ![t].failed = tasks[t].pc, ![t].net = @ + 1]
              /\ UNCHANGED update_channel
    /\ UNCHANGED cache
    /\ fg_unchanged

\* fs::metadata(..).modified().elapsed() after the first fetch wrote the file
TaskAge(t) ==
    /\ tasks[t].pc = "age"
    /\ cache[TaskPath(t)].exists
    /\ tasks' = [tasks EXCEPT ![t] = after_age_check(@, cache[TaskPath(t)])]
    /\ UNCHANGED <<update_channel, cache>>
    /\ fg_unchanged

\* read_to_string, serde_json::from_str, then the send of the task body
TaskRead(t) ==
    /\ tasks[t].pc = "read"
    /\ cache[TaskPath(t)].exists
    /\ LET elements == Some(cache[TaskPath(t)].n)
       IN  /\ tasks' = [tasks EXCEPT ![t].pc = "done", ![t].res = elements]
           /\ update_channel' = SendResult(t, elements)
    /\ UNCHANGED cache
    /\ fg_unchanged

Next ==
    \/ \E index \in Indices : Click(index)
    \/ Update
    \/ Tick
    \/ \E t \in 1..Len(tasks) : TaskStart(t)
    \/ \E t \in 1..Len(tasks), n \in 0..MaxElems : TaskFetchOk(t, n)
    \/ \E t \in 1..Len(tasks) : TaskFetchFail(t)
    \/ \E t \in 1..Len(tasks) : TaskAge(t)
    \/ \E t \in 1..Len(tasks) : TaskRead(t)

Spec == Init /\ [][Next]_vars

(* ---------------------------- vocabulary ------------------------------ *)
TaskIds == 1..Len(tasks)
TasksOf(i) == { t \in TaskIds : tasks[t].index = i }
\* spawned, neither finished nor aborted
InFlight(t) == tasks[t].pc \in Awaiting
ObjectsOf(objs, i) == { k \in 1..Len(objs) : objs[k].entry = i }
\* the cache record of entry i exists and is not expired now
CacheValid(i) ==
    LET file == cache[CachePath(list_entries[i].group)]
    IN  file.exists /\ ~is_cache_expired(now - file.mtime, cache_lifetime)
\* the step is handle_update_event receiving at least one result
PollStep == update_channel # <<>> /\ update_channel' = <<>>
RefreshDue == now - last_update_instant >= cache_lifetime
Received == { update_channel[k] : k \in 1..Len(update_channel) }

(* ------------------------------- C1 ----------------------------------- *)
\* C1: in every reachable state each entry has at most one in-flight fetch task.
C1_AtMostOneInFlight ==
    \A i \in Indices : Cardinality({ t \in TasksOf(i) : InFlight(t) }) <= 1

(* ------------------------------- C2 ----------------------------------- *)
\* C2: the roster never holds an object contributed by an entry whose selected
\* flag is false (a result polled for a deselected entry is discarded).
C2_RosterOnlyFromSelected ==
    \A i \in Indices : ~list_entries[i].selected => ObjectsOf(objects, i) = {}

(* ------------------------------- C3 ----------------------------------- *)
\* C3: polling the result of a cancelled task while a newer task of the same entry
\* is in flight leaves the entry loading, selected and with its abort handle, and
\* adds nothing to the roster.
C3_LateResultLeavesEntryAlone ==
    [][\A m \in Received :
          LET entry == list_entries[m.index]
          IN  ( /\ PollStep
                /\ tasks[m.task].cancelled
                /\ entry.selected /\ entry.loading
                /\ entry.abort_handle \notin {NoHandle, m.task}
                /\ InFlight(entry.abort_handle) )
              => /\ list_entries'[m.index].loading
                 /\ list_entries'[m.index].selected
                 /\ list_entries'[m.index].abort_handle # NoHandle
                 /\ (Len(update_channel) = 1 /\ ~RefreshDue => objects' = objects)
      ]_vars

(* ------------------------------- C4 ----------------------------------- *)
\* C4: an Unselected entry stays Unselected (selected = false, loading = false) in
\* every step but a click on it; polling the late result of its cancelled task
\* never makes it Selected.
C4_StaysUnselected ==
    [][\A i \in Indices :
          (StateOf(list_entries[i]) = "Unselected" /\ ~Click(i))
          => StateOf(list_entries'[i]) = "Unselected"
      ]_vars

\* the result of a task cancelled by the deselecting click has been polled, its
\* elements are in the roster, and the entry is still Unselected
C4_Witness ==
    \E t \in TaskIds :
        /\ tasks[t].pc = "polled" /\ tasks[t].cancelled
        /\ left_from[tasks[t].index] = "Loading"
        /\ ObjectsOf(objects, tasks[t].index) # {}
        /\ StateOf(list_entries[tasks[t].index]) = "Unselected"

(* ------------------------------- C5 ----------------------------------- *)
\* C5: a click that deselects a Loading entry leaves it with selected = false,
\* loading = false and no abort handle, and abort has been called on the task its
\* handle held, which is in flight no more.
C5_DeselectLoadingCancels ==
    [][\A i \in Indices :
          (Click(i) /\ list_entries[i].selected /\ list_entries[i].loading)
          => /\ ~list_entries'[i].selected
             /\ ~list_entries'[i].loading
             /\ list_entries'[i].abort_handle = NoHandle
             /\ list_entries[i].abort_handle # NoHandle
             /\ tasks'[list_entries[i].abort_handle].cancelled
             /\ tasks'[list_entries[i].abort_handle].pc \notin Awaiting
      ]_vars

\* an entry deselected while Loading, its task cut off at an await point
C5_Witness ==
    \E i \in Indices :
        /\ left_from[i] = "Loading"
        /\ StateOf(list_entries[i]) = "Unselected"
        /\ \E t \in TasksOf(i) : tasks[t].pc = "aborted" /\ tasks[t].cancelled

(* ------------------------------- C6 ----------------------------------- *)
\* C6: after an entry was deselected while Selected, and until it is selected
\* again, it is Unselected and the roster holds none of its objects.
C6_DeselectedStaysOut ==
    \A i \in Indices :
        left_from[i] = "Selected"
        => /\ StateOf(list_entries[i]) = "Unselected"
           /\ ObjectsOf(objects, i) = {}

(* ------------------------------- C7 ----------------------------------- *)
\* C7 as stated: selecting an Unselected entry whose cache record is valid takes it
\* straight to Selected with its objects in the roster, without Loading and
\* without a task.
C7_ValidCacheSkipsLoading ==
    [][\A i \in Indices :
          (Click(i) /\ StateOf(list_entries[i]) = "Unselected" /\ CacheValid(i))
          => /\ StateOf(list_entries'[i]) = "Selected"
             /\ Len(tasks') = Len(tasks)
             /\ Len(objects') =
                  Len(objects) + cache[CachePath(list_entries[i].group)].n
      ]_vars

\* C7 as amended: selecting an Unselected entry always puts it in Loading and
\* spawns a fetch task whose handle the entry keeps, the roster unchanged, valid
\* cache record or not; the task that finds a valid record goes on to read it,
\* and only a task that found the record missing or expired issues a request.
C7_SelectAlwaysLoads ==
    /\ [][\A i \in Indices :
            (Click(i) /\ ~list_entries[i].selected)
            => /\ StateOf(list_entries'[i]) = "Loading"
               /\ list_entries'[i].selected
               /\ Len(tasks') = Len(tasks) + 1
               /\ list_entries'[i].abort_handle = Len(tasks')
               /\ tasks'[Len(tasks')] = NewTask(i)
               /\ objects' = objects
         ]_vars
    /\ [][\A t \in TaskIds :
            (tasks[t].pc = "start" /\ tasks'[t].pc \in Awaiting \ {"start"})
            => (tasks'[t].pc = "read" <=> CacheValid(tasks[t].index))
         ]_vars
    /\ [](\A t \in TaskIds :
            tasks[t].net > 0 => tasks[t].existed = "no" \/ tasks[t].expired = "yes")

\* just selected: Loading, the new task not yet started, the cache record valid
C7_Witness ==
    \E i \in Indices :
        /\ StateOf(list_entries[i]) = "Loading"
        /\ list_entries[i].abort_handle # NoHandle
        /\ tasks[list_entries[i].abort_handle] = NewTask(i)
        /\ CacheValid(i)

(* ------------------------------- C8 ----------------------------------- *)
\* The end-to-end scenario: every entry Unselected, the roster empty, the cache
\* directory pre-populated, a positive cache lifetime; the user selects one entry
\* whose record is valid, and the load completes before the clock moves on (so the
\* record stays valid and no periodic refresh falls due meanwhile).
InitE2E ==
    /\ list_entries = [i \in Indices |-> EntryFrom(GroupFrom(ConfigGroups[i]))]
    /\ objects = <<>>
    /\ update_channel = <<>>
    /\ last_update_instant = 0
    /\ cache_lifetime \in 1..MaxLifetime
    /\ tasks = <<>>
    /\ cache \in [CachePaths -> {NoFile} \cup
                    { File(n, 0 - a) : n \in 0..MaxElems, a \in 0..MaxLifetime }]
    /\ now = 0
    /\ left_from = [i \in Indices |-> "-"]
    /\ selected_object_index = NoIndex
    /\ hovered_object_index = NoIndex
    /\ unpropagatable = {}
    /\ crashed = FALSE
    /\ calc = NoCalc
    /\ \E i \in Indices : CacheValid(i)

\* the one selecting click of the scenario
SelectCached(index) ==
    /\ tasks = <<>>
    /\ CacheValid(index)
    /\ Click(index)

TaskStepE2E == \E t \in 1..Len(tasks) : TaskStart(t) \/ TaskRead(t)

NextE2E ==
    \/ \E index \in Indices : SelectCached(index)
    \/ Update
    \/ TaskStepE2E

\* the user does click, tokio runs a spawned task, Update events keep coming
SpecE2E ==
    /\ InitE2E
    /\ [][NextE2E]_vars
    /\ WF_vars(\E index \in Indices : SelectCached(index))
    /\ WF_vars(Update)
    /\ WF_vars(TaskStepE2E)

\* entry i is Selected and the roster is exactly the n objects of its cache record
Loaded(i) ==
    /\ StateOf(list_entries[i]) = "Selected"
    /\ objects = Materialize([index |-> i,
                              elements |-> Some(cache[CachePath(list_entries[i].group)].n)])

\* C8: in the end-to-end scenario the roster eventually is, and stays, exactly the
\* n objects of the selected entry's cache record with the entry Selected, and no
\* task ever issues a network request.
C8_EndToEnd ==
    /\ [](\A t \in TaskIds : tasks[t].net = 0 /\ tasks[t].pc \notin {"fetch1", "fetch2"})
    /\ <>[](\E i \in Indices : Loaded(i))

\* the entry is Selected with the one object of its record, its task polled
C8_Witness ==
    \E i \in Indices :
        /\ Loaded(i)
        /\ Len(objects) = 1
        /\ \E t \in TasksOf(i) : tasks[t].pc = "polled"

C10_FailureForcesUnselected ==
    [][( /\ PollStep
         /\ ~RefreshDue
         /\ \A m \in Received : ~m.elements.some )
       => /\ objects' = objects
          /\ \A i \in Indices :
               IF \E m \in Received : m.index = i
                 THEN list_entries'[i] =
                        [list_entries[i] EXCEPT !.selected = FALSE,
                                                !.loading = FALSE,
                                                !.abort_handle = NoHandle]
                 ELSE list_entries'[i] = list_entries[i]
      ]_vars

\* an entry no click deselected is Unselected because its task's result was polled
C10_Witness ==
    \E t \in TaskIds :
        /\ tasks[t].pc = "polled" /\ ~tasks[t].cancelled
        /\ left_from[tasks[t].index] = "-"
        /\ StateOf(list_entries[tasks[t].index]) = "Unselected"

(* ------------------------------- C11 ---------------------------------- *)
\* The periodic-refresh scenario: a positive cache lifetime, a catalog that
\* answers every request with the same MaxElems element sets, no failing request;
\* the user toggles entries until the first refresh has fired and not after.
InitRefresh ==
    /\ Init
    /\ cache_lifetime > 0

ClickBeforeRefresh(index) ==
    /\ last_update_instant = 0
    /\ Click(index)

TaskStepRefresh ==
    \E t \in 1..Len(tasks) :
        TaskStart(t) \/ TaskFetchOk(t, MaxElems) \/ TaskAge(t) \/ TaskRead(t)

NextRefresh ==
    \/ \E index \in Indices : ClickBeforeRefresh(index)
    \/ Update
    \/ Tick
    \/ TaskStepRefresh

SpecRefresh == InitRefresh /\ [][NextRefresh]_vars

\* a refresh has fired, every task has ended and every result has been polled
RefreshSettled ==
    /\ last_update_instant > 0
    /\ update_channel = <<>>
    /\ \A t \in TaskIds : ~InFlight(t)

\* the tasks a step spawned for entry i
SpawnedFor(i) == { t \in (Len(tasks) + 1)..Len(tasks') : tasks'[t] = NewTask(i) }

\* C11: a periodic refresh empties the roster and starts one fetch for every entry
\* that is selected and none for an unselected entry; once those fetches have
\* succeeded and been polled the roster is exactly the elements of the re-fetched
\* entries (here MaxElems objects of each selected entry and no other object).
C11_RefreshRebuildsRoster ==
    /\ [][(Update /\ RefreshDue /\ ~crashed')
          => /\ objects' = <<>>
             /\ \A i \in Indices :
                  Cardinality(SpawnedFor(i)) = IF list_entries'[i].selected THEN 1 ELSE 0
         ]_vars
    /\ [](RefreshSettled
          => \A i \in Indices :
               Cardinality(ObjectsOf(objects, i)) =
                 IF list_entries[i].selected THEN MaxElems ELSE 0)

(* ------------------------------- C12 ---------------------------------- *)
\* get_nearest_object_index: the roster position nearest to the mouse, None on an
\* empty roster; which position it is depends on where the mouse is
NearestObjectIndices == IF objects = <<>> THEN {NoIndex} ELSE 1..Len(objects)

\* world_map::handle_mouse_event with the mouse inside the map
MapMouseInside(kind, nearest_object_index) ==
    /\ ~crashed
    /\ selected_object_index' =
         CASE kind = "DownLeft" -> nearest_object_index
           [] kind = "DownRight" -> NoIndex
           [] OTHER -> selected_object_index
    /\ hovered_object_index' = nearest_object_index
    /\ UNCHANGED <<list_entries, objects, update_channel, last_update_instant,
                   cache_lifetime, tasks, cache, now, left_from, unpropagatable,
                   crashed, calc>>

\* world_map::handle_mouse_event with the mouse outside the map (and not on an entry)
MapMouseOutside ==
    /\ ~crashed
    /\ hovered_object_index' = NoIndex
    /\ UNCHANGED <<list_entries, objects, update_channel, last_update_instant,
                   cache_lifetime, tasks, cache, now, left_from, selected_object_index,
                   unpropagatable, crashed, calc>>

NextMap ==
    \/ NextRefresh
    \/ \E kind \in {"DownLeft", "DownRight", "Moved"}, nearest \in NearestObjectIndices :
          MapMouseInside(kind, nearest)
    \/ MapMouseOutside

SpecMap == InitRefresh /\ [][NextMap]_vars

\* the index is none or names a position of the roster (objects[index] exists)
InRoster(index) == index = NoIndex \/ index \in 1..Len(objects)

\* C12: a step that rebuilds the roster (a periodic refresh or a toggle) resets the
\* selected and the hovered roster index to none, so that in every reachable state
\* a selected or hovered index that is not none is a position of the roster.
C12_IndicesFollowRoster ==
    /\ [][((Update /\ RefreshDue) \/ \E i \in Indices : Click(i))
          => selected_object_index' = NoIndex /\ hovered_object_index' = NoIndex
         ]_vars
    /\ [](InRoster(selected_object_index) /\ InRoster(hovered_object_index))

(* --------------------------- the cache record ------------------------- *)
\* The cache scenario: any lifetime, records of any age up to one unit past the
\* largest lifetime; the user toggles an entry while no task is running; the
\* process may be stopped and started again, the cache directory surviving.
InitCache ==
    /\ list_entries = [i \in Indices |-> EntryFrom(GroupFrom(ConfigGroups[i]))]
    /\ objects = <<>>
    /\ update_channel = <<>>
    /\ last_update_instant = 0
    /\ cache_lifetime \in 0..MaxLifetime
    /\ tasks = <<>>
    /\ cache \in [CachePaths -> {NoFile} \cup
                    { File(MaxElems, 0 - a) : a \in 0..(MaxLifetime + 1) }]
    /\ now = 0
    /\ left_from = [i \in Indices |-> "-"]
    /\ selected_object_index = NoIndex
    /\ hovered_object_index = NoIndex
    /\ unpropagatable = {}
    /\ crashed = FALSE
    /\ calc = NoCalc

\* the user selects an entry while no task is running
SelectIdle(index) ==
    /\ \A t \in 1..Len(tasks) : tasks[t].pc \notin Awaiting
    /\ ~list_entries[index].selected
    /\ Click(index)

NextCache ==
    \/ \E index \in Indices : SelectIdle(index)
    \/ Tick
    \/ \E t \in 1..Len(tasks) : TaskStart(t)
    \/ \E t \in 1..Len(tasks), n \in 0..MaxElems : TaskFetchOk(t, n)
    \/ \E t \in 1..Len(tasks) : TaskFetchFail(t)
    \/ \E t \in 1..Len(tasks) : TaskAge(t)
    \/ \E t \in 1..Len(tasks) : TaskRead(t)

SpecCache == InitCache /\ [][NextCache]_vars

\* task t stays the same task in this step (no restart replaced it)
SameTask(t) == t \in 1..Len(tasks') /\ tasks'[t].index = tasks[t].index

\* in this step task t measures the age of its cache record and decides on it
AgeCheckStep(t) ==
    /\ SameTask(t)
    /\ \/ tasks[t].pc = "start" /\ cache[TaskPath(t)].exists
       \/ tasks[t].pc = "age"
    /\ tasks'[t].pc \in {"read", "fetch2"}

\* the age the record of task t has now, measured from the time it was written
AgeOf(t) == now - cache[TaskPath(t)].mtime

\* in this step task t gets an answer to a network request
RequestStep(t) == SameTask(t) /\ tasks'[t].net = tasks[t].net + 1

(* ------------------------------- C13 ---------------------------------- *)
\* C13: a task that checks a record whose age is below the cache lifetime goes on
\* to read it and reports its content without a network request; a task that
\* checks a record whose age exceeds the lifetime issues a network request next.
C13_Staleness ==
    /\ [][\A t \in TaskIds :
            AgeCheckStep(t)
            => /\ AgeOf(t) < cache_lifetime
                    => tasks'[t].pc = "read" /\ tasks'[t].net = tasks[t].net
               /\ AgeOf(t) > cache_lifetime => tasks'[t].pc = "fetch2"
         ]_vars
    /\ [][\A t \in TaskIds :
            (SameTask(t) /\ tasks[t].pc = "read" /\ tasks'[t].pc = "done")
            => /\ tasks'[t].net = tasks[t].net
               /\ tasks'[t].res = Some(cache[TaskPath(t)].n)
         ]_vars
    /\ [][\A t \in TaskIds :
            (SameTask(t) /\ tasks[t].pc = "fetch2" /\ tasks'[t].pc \in {"read", "done"})
            => RequestStep(t)
         ]_vars

\* two finished tasks: one found its record valid and reported it without a
\* request, the other found its record expired and issued a request
C13_Witness ==
    \E t1, t2 \in TaskIds :
        /\ tasks[t1].pc = "done" /\ tasks[t1].existed = "yes"
        /\ tasks[t1].expired = "no" /\ tasks[t1].net = 0 /\ tasks[t1].res.some
        /\ tasks[t2].pc = "done" /\ tasks[t2].existed = "yes"
        /\ tasks[t2].expired = "yes" /\ tasks[t2].net = 1

(* ------------------------------- C14 ---------------------------------- *)
\* the request of task t is answered with elements in this step
FetchSucceeds(t) == RequestStep(t) /\ tasks'[t].failed = tasks[t].failed

\* C14: the step in which a task's request is answered with elements writes the
\* task's cache record afresh (those elements, modified now) and no other record,
\* and no other step changes any cache record.
C14_WrittenAfterFetch ==
    /\ [][\A t \in TaskIds :
            FetchSucceeds(t)
            => \E n \in 0..MaxElems :
                  /\ TaskFetchOk(t, n)
                  /\ cache' = [cache EXCEPT ![TaskPath(t)] = File(n, now)]
         ]_vars
    /\ [][cache' # cache => \E t \in TaskIds : FetchSucceeds(t)]_vars

\* a task past its answered request, the record it wrote in place
C14_Witness ==
    \E t \in TaskIds :
        /\ tasks[t].pc \in {"age", "read"} /\ tasks[t].net = 1 /\ tasks[t].failed = "no"
        /\ cache[TaskPath(t)] = File(0, now)

(* ------------------------------- C15 ---------------------------------- *)
\* The restart scenario: the largest cache lifetime, a catalog that answers every
\* successful request with the same MaxElems element sets; the user toggles
\* entries while no task is running, refreshes fall due, requests fail or
\* succeed, the process is restarted.
InitRestart ==
    /\ Init
    /\ cache_lifetime = MaxLifetime

ClickIdle(index) ==
    /\ \A t \in 1..Len(tasks) : tasks[t].pc \notin Awaiting
    /\ Click(index)

\* the process ends (its runtime and tasks with it) and main starts a new one:
\* States::with_config again, last_update_instant = Instant::now(); the scenario
\* has one restart, after the clock has moved
Restart ==
    /\ last_update_instant = 0 /\ now > 0
    /\ list_entries' = [i \in Indices |-> EntryFrom(GroupFrom(ConfigGroups[i]))]
    /\ objects' = <<>>
    /\ update_channel' = <<>>
    /\ last_update_instant' = now
    /\ tasks' = <<>>
    /\ left_from' = [i \in Indices |-> "-"]
    /\ selected_object_index' = NoIndex
    /\ hovered_object_index' = NoIndex
    /\ crashed' = FALSE
    /\ UNCHANGED <<cache_lifetime, cache, now, unpropagatable, calc>>

NextRestart ==
    \/ \E index \in Indices : ClickIdle(index)
    \/ Update
    \/ Tick
    \/ Restart
    \/ \E t \in 1..Len(tasks) : TaskStart(t)
    \/ \E t \in 1..Len(tasks) : TaskFetchOk(t, MaxElems)
    \/ \E t \in 1..Len(tasks) : TaskFetchFail(t)
    \/ \E t \in 1..Len(tasks) : TaskAge(t)
    \/ \E t \in 1..Len(tasks) : TaskRead(t)

SpecRestart == InitRestart /\ [][NextRestart]_vars

\* in this step a request of some task fails
FailedFetchStep == \E t \in TaskIds : RequestStep(t) /\ tasks'[t].failed # tasks[t].failed

\* in this step some task reads its cache record and reports it
CacheReadStep ==
    \E t \in TaskIds : SameTask(t) /\ tasks[t].pc = "read" /\ tasks'[t].pc = "done"

\* C15: the content and the modification time of a cache record change only in
\* the step that writes it after a successful fetch, the time becoming the time of
\* that write; a failed fetch, a cache read, a periodic refresh, a toggle and a
\* restart leave every record as it is; and a task that checks a record measures
\* its age from the record's modification time.
C15_AgeFromLastWrite ==
    /\ [][\A path \in CachePaths :
            cache'[path] # cache[path]
            => /\ \E t \in TaskIds : FetchSucceeds(t) /\ TaskPath(t) = path
               /\ cache'[path].exists /\ cache'[path].mtime = now
         ]_vars
    /\ [][( \/ FailedFetchStep
            \/ CacheReadStep
            \/ Update /\ RefreshDue
            \/ \E i \in Indices : Click(i)
            \/ Restart )
          => cache' = cache
         ]_vars
    /\ [][\A t \in TaskIds :
            AgeCheckStep(t)
            => tasks'[t].expired = IF AgeOf(t) > cache_lifetime THEN "yes" ELSE "no"
         ]_vars

\* after a restart or a refresh, a task's request to replace a record older than
\* the process has failed, and the record is as it was written
C15_Witness ==
    \E t \in TaskIds :
        /\ last_update_instant > 0
        /\ tasks[t].failed = "fetch2"
        /\ cache[TaskPath(t)] = File(MaxElems, 0 - MaxLifetime)

(* ------------------------------- C16 ---------------------------------- *)
\* a tokio::fs call of get_elements returns Err (create_dir_all, try_exists,
\* metadata, write, read_to_string) or serde_json::from_str does: the unwrap
\* panics, the task ends there and its sender is dropped without a send
TaskIoFail(t) ==
    /\ tasks[t].pc \in Awaiting
    /\ tasks' = [tasks EXCEPT ![t] = Retired(@, "panicked")]
    /\ UNCHANGED <<update_channel, cache>>
    /\ fg_unchanged

\* the cache scenario with failing file I/O
NextIo ==
    \/ NextCache
    \/ \E t \in 1..Len(tasks) : TaskIoFail(t)

SpecIo == InitCache /\ [][NextIo]_vars

\* C16: a cache I/O failure inside a fetch task makes the task go on to a network
\* fetch (a cache miss); the task does not die.
C16_IoFailureIsCacheMiss ==
    /\ [][\A t \in TaskIds : TaskIoFail(t) => tasks'[t].pc \in {"fetch1", "fetch2"}]_vars
    /\ [](\A t \in TaskIds : tasks[t].pc # "panicked")

(* ------------------------------- C17 ---------------------------------- *)
\* The scenario of a catalog holding element sets no object can be built from
\* (sgp4::Constants::from_elements returns Err for them).
InitInvalid ==
    /\ list_entries = [i \in Indices |-> EntryFrom(GroupFrom(ConfigGroups[i]))]
    /\ objects = <<>>
    /\ update_channel = <<>>
    /\ last_update_instant = 0
    /\ cache_lifetime \in 0..MaxLifetime
    /\ tasks = <<>>
    /\ cache \in [CachePaths -> {NoFile, File(MaxElems, 0 - MaxLifetime)}]
    /\ now = 0
    /\ left_from = [i \in Indices |-> "-"]
    /\ selected_object_index = NoIndex
    /\ hovered_object_index = NoIndex
    /\ unpropagatable \in (SUBSET (Indices \X (1..MaxElems))) \ {{}}
    /\ crashed = FALSE
    /\ calc = NoCalc

NextInvalid ==
    \/ NextCache
    \/ Update

SpecInvalid == InitInvalid /\ [][NextInvalid]_vars

PropagatableObject(object) == Propagatable(object.entry, object.id)

\* C17: polling a successful result that holds element sets no object can be
\* built from leaves only those out: the foreground loop does not crash, the
\* other element sets of the result join the roster and the entry shows Selected.
C17_InvalidElementsSkipped ==
    /\ [](~crashed)
    /\ [][\A m \in Received :
            (Update /\ Len(update_channel) = 1 /\ ~RefreshDue /\ m.elements.some)
            => /\ objects' = objects \o SelectSeq(Materialize(m), PropagatableObject)
               /\ StateOf(list_entries'[m.index]) = "Selected"
         ]_vars

(* ------------------- utils.rs: calculations over an object ------------ *)
\* The times of calculate_pass_times count in seconds from start_time, the
\* durations of calculate_ground_track in minutes from the query time.
\* Object::predict gives a state above the observer's horizon (el >= 0), one
\* below it, or Err(sgp4::Error).
Outcomes == {"above", "below", "error"}

\* const TIME_STEP: Duration = Duration::minutes(1), in seconds
TIME_STEP == 60

\* the end_time of a scanned window: start_time plus up to MaxMinutes whole
\* minutes, or half a minute more (start_time <= end_time is the precondition)
WindowEnds ==
    { m * TIME_STEP + half * (TIME_STEP \div 2) : m \in 0..MaxMinutes, half \in {0, 1} }

InitPredict ==
    /\ Init
    /\ cache_lifetime = MaxLifetime
    /\ \A path \in CachePaths : cache[path] = NoFile

calc_unchanged ==
    UNCHANGED <<list_entries, objects, update_channel, last_update_instant,
                cache_lifetime, tasks, cache, now, left_from, selected_object_index,
                hovered_object_index, unpropagatable, crashed>>

\* a caller enters calculate_pass_times(object, observer, start_time, end_time)
CallPassTimes(end_time) ==
    /\ calc.fn = "-"
    /\ calc' = [NoCalc EXCEPT !.fn = "calculate_pass_times", !.status = "running",
                              !.time = 0, !.limit = end_time]
    /\ calc_unchanged

\* the scan loop that closes a pass at the first sample below the horizon
\* instead of the last one above it
PassTimesLoop_closes_late(outcome) ==
    /\ calc.fn = "calculate_pass_times" /\ calc.status = "running"
    /\ calc.time <= calc.limit
    /\ calc' =
         IF outcome = "error"
           THEN [calc EXCEPT !.status = "panicked", !.seen = Append(@, outcome)]
           ELSE LET is_visible == outcome = "above"
                    start == calc.current_pass_start
                IN  [calc EXCEPT
                       !.current_pass_start =
                           IF start = NoTime /\ is_visible THEN calc.time
                           ELSE IF start # NoTime /\ ~is_visible THEN NoTime
                           ELSE @,
                       !.out =
                           IF start # NoTime /\ ~is_visible
                             THEN Append(@, <<start, calc.time>>)
                             ELSE @,
                       !.time = @ + TIME_STEP,
                       !.seen = Append(@, outcome)]
    /\ calc_unchanged

\* one turn of `while time <= *end_time`; object.predict(&time).unwrap()
PassTimesLoop(outcome) ==
    /\ calc.fn = "calculate_pass_times" /\ calc.status = "running"
    /\ calc.time <= calc.limit
    /\ calc' =
         IF outcome = "error"
           THEN [calc EXCEPT !.status = "panicked", !.seen = Append(@, outcome)]
           ELSE LET is_visible == outcome = "above"
                    start == calc.current_pass_start
                IN  [calc EXCEPT
                       !.current_pass_start =
                           IF start = NoTime /\ is_visible THEN calc.time
                           ELSE IF start # NoTime /\ ~is_visible THEN NoTime
                           ELSE @,
                       !.out =
                           IF start # NoTime /\ ~is_visible
                             THEN Append(@, <<start, calc.time - TIME_STEP>>)
                             ELSE @,
                       !.time = @ + TIME_STEP,
                       !.seen = Append(@, outcome)]
    /\ calc_unchanged

\* the end of the scan that closes the open pass at the last sample taken
PassTimesReturn_at_last_sample ==
    /\ calc.fn = "calculate_pass_times" /\ calc.status = "running"
    /\ calc.time > calc.limit
    /\ calc' = [calc EXCEPT
                  !.status = "done",
                  !.out = IF calc.current_pass_start # NoTime
                            THEN Append(@, <<calc.current_pass_start,
                                             calc.time - TIME_STEP>>)
                            ELSE @]
    /\ calc_unchanged

\* after the loop: the open pass is closed at end_time, pass_segments returned
PassTimesReturn ==
    /\ calc.fn = "calculate_pass_times" /\ calc.status = "running"
    /\ calc.time > calc.limit
    /\ calc' = [calc EXCEPT
                  !.status = "done",
                  !.out = IF calc.current_pass_start # NoTime
                            THEN Append(@, <<calc.current_pass_start, calc.limit>>)
                            ELSE @]
    /\ calc_unchanged

\* a caller enters calculate_ground_track(object, time); the object's orbital
\* period is `minutes` whole minutes; the range starts at 1
CallGroundTrack(minutes) ==
    /\ calc.fn = "-"
    /\ calc' = [NoCalc EXCEPT !.fn = "calculate_ground_track", !.status = "running",
                              !.time = 1, !.limit = minutes]
    /\ calc_unchanged

\* one turn of `for duration in (1..num_minutes)`; predict(&(*time + duration)).unwrap();
\* the point pushed is known by its minute
GroundTrackLoop(outcome) ==
    /\ calc.fn = "calculate_ground_track" /\ calc.status = "running"
    /\ calc.time < calc.limit
    /\ calc' =
         IF outcome = "error"
           THEN [calc EXCEPT !.status = "panicked", !.seen = Append(@, outcome)]
           ELSE [calc EXCEPT !.out = Append(@, calc.time),
                             !.time = @ + 1,
                             !.seen = Append(@, outcome)]
    /\ calc_unchanged

\* the range is exhausted: points returned
GroundTrackReturn ==
    /\ calc.fn = "calculate_ground_track" /\ calc.status = "running"
    /\ calc.time >= calc.limit
    /\ calc' = [calc EXCEPT !.status = "done"]
    /\ calc_unchanged

NextPredict ==
    \/ \E end_time \in WindowEnds : CallPassTimes(end_time)
    \/ \E outcome \in Outcomes : PassTimesLoop(outcome)
    \/ PassTimesReturn
    \/ \E minutes \in 1..MaxMinutes : CallGroundTrack(minutes)
    \/ \E outcome \in Outcomes : GroundTrackLoop(outcome)
    \/ GroundTrackReturn

SpecPredict == InitPredict /\ [][NextPredict]_vars

(* ------------------------------- C18 ---------------------------------- *)
\* C18: when predict fails at a sample time, the pass-time scan and the ground
\* track go on to the next sample (no state at this instant) and do not crash.
C18_PredictFailureTolerated ==
    /\ [](calc.status # "panicked")
    /\ [][(calc.status = "running" /\ Len(calc'.seen) = Len(calc.seen) + 1
           /\ calc'.seen[Len(calc'.seen)] = "error")
          => calc'.status = "running" /\ calc'.time > calc.time
         ]_vars

(* --------------------------- C21 and C22 ------------------------------ *)
\* a finished scan: calculate_pass_times has returned calc.out for the window
\* [0, calc.limit], having taken the samples calc.seen
ScanDone == calc.fn = "calculate_pass_times" /\ calc.status = "done"

\* the time of the k-th sample of a scan
SampleTime(k) == (k - 1) * TIME_STEP
Visible(k) == calc.seen[k] = "above"

\* the maximal runs of consecutive visible samples, as pairs of sample numbers
Runs ==
    { r \in (1..Len(calc.seen)) \X (1..Len(calc.seen)) :
        /\ r[1] <= r[2]
        /\ \A k \in r[1]..r[2] : Visible(k)
        /\ r[1] = 1 \/ ~Visible(r[1] - 1)
        /\ r[2] = Len(calc.seen) \/ ~Visible(r[2] + 1) }

\* the runs that end before the window does: a sample below the horizon follows
ClosedRuns == { r \in Runs : r[2] < Len(calc.seen) }
\* the run that reaches the last sample of the window, if there is one
OpenRuns == Runs \ ClosedRuns

\* the number of runs of R that start before run r does
Before(R, r) == Cardinality({ q \in R : q[1] < r[1] })

\* C21: a finished scan of a window with start <= end over any pattern of
\* visible and not-visible samples has returned, in chronological order, one
\* segment for each maximal run of visible samples that ends before the window
\* does, from the time of the run's first sample to the time of its last, and
\* besides these only the segment of a run that reaches the last sample.
C21_OneSegmentPerRun ==
    ScanDone
    => /\ Len(calc.seen) = (calc.limit \div TIME_STEP) + 1
       /\ Len(calc.out) = Cardinality(Runs)
       /\ \A r \in ClosedRuns :
             calc.out[Before(Runs, r) + 1] = <<SampleTime(r[1]), SampleTime(r[2])>>
       /\ \A j \in 1..(Len(calc.out) - 1) : calc.out[j][2] < calc.out[j + 1][1]

\* a scan of four samples, visible exactly at the two middle ones
C21_Witness ==
    /\ ScanDone
    /\ calc.seen = <<"below", "above", "above", "below">>
    /\ calc.out = << <<SampleTime(2), SampleTime(3)>> >>

\* C22: a finished scan whose last sample was visible has closed the open pass at
\* end_time itself, whole number of minutes or not, as its last segment; the
\* scan returns with no pass open and every segment has start <= end.
C22_OpenPassClosedAtEnd ==
    ScanDone
    => /\ \A r \in OpenRuns :
             calc.out[Len(calc.out)] = <<SampleTime(r[1]), calc.limit>>
       /\ Len(calc.out) = Cardinality(Runs)
       /\ \A j \in 1..Len(calc.out) :
             /\ calc.out[j][1] # NoTime /\ calc.out[j][2] # NoTime
             /\ calc.out[j][1] <= calc.out[j][2]

\* a scan of a window of one minute and a half, visible from its second sample
\* on: the pass is closed half a minute after the last sample
C22_Witness ==
    /\ ScanDone
    /\ calc.limit = TIME_STEP + (TIME_STEP \div 2)
    /\ calc.seen = <<"below", "above">>
    /\ calc.out = << <<TIME_STEP, calc.limit>> >>

OtherSelected(i) == { j \in Indices \ {i} : list_entries[j].selected }

C20_CancelIdempotent ==
    \A i \in Indices :
        LET once == cancel_entry_loading(Fg, i)
            twice == cancel_entry_loading(once, i)
        IN  /\ twice = once
            /\ ~once.list_entries[i].loading
            /\ once.list_entries[i].abort_handle = NoHandle
            /\ \A t \in TaskIds :
                 once.tasks[t] # tasks[t] => t = list_entries[i].abort_handle
            /\ \A j \in Indices \ {i} : once.list_entries[j] = list_entries[j]
            /\ once.objects = objects

\* an entry that is Loading with its task in flight: the first call aborts it
C20_Witness ==
    \E i \in Indices :
        /\ list_entries[i].loading
        /\ list_entries[i].abort_handle # NoHandle
        /\ InFlight(list_entries[i].abort_handle)
        /\ cancel_entry_loading(Fg, i).tasks[list_entries[i].abort_handle].pc = "aborted"

(* ------------------------------- C23 ---------------------------------- *)
\* A configuration file the user may write (satellite_groups.groups): the catalog
\* group "weather" next to an entry that names "weather" as an international
\* designator, and one satellite listed under two labels
UserGroups ==
    << [label |-> "Weather", id |-> "-",         group |-> "weather"],
       [label |-> "WX",      id |-> "weather",   group |-> "-"],
       [label |-> "ISS",     id |-> "1998-067A", group |-> "-"],
       [label |-> "Zarya",   id |-> "1998-067a", group |-> "-"] >>

\* the configurations of the scenario: the default one and the user's
Configurations == {ConfigGroups, UserGroups}

\* The cache scenario over either configuration
InitLabels ==
    /\ \E groups \in Configurations :
          list_entries = [i \in Indices |-> EntryFrom(GroupFrom(groups[i]))]
    /\ objects = <<>>
    /\ update_channel = <<>>
    /\ last_update_instant = 0
    /\ cache_lifetime \in 0..MaxLifetime
    /\ tasks = <<>>
    /\ cache \in [CachePaths -> {NoFile, File(MaxElems, 0 - MaxLifetime)}]
    /\ now = 0
    /\ left_from = [i \in Indices |-> "-"]
    /\ selected_object_index = NoIndex
    /\ hovered_object_index = NoIndex
    /\ unpropagatable = {}
    /\ crashed = FALSE
    /\ calc = NoCalc

SpecLabels == InitLabels /\ [][NextCache]_vars

\* Group::label of entry i, and the cache record get_elements uses for it
LabelOf(i) == list_entries[i].group.label
PathOf(i) == CachePath(list_entries[i].group)

\* C23: cache records are kept one per group label: the tasks of two entries with
\* different labels never use the same cache record, and the write of a task
\* leaves the record of every entry with another label as it is (so an entry
\* reads what was written for its own label).
C23_RecordPerLabel ==
    /\ [](\A t, u \in TaskIds :
            LabelOf(tasks[t].index) # LabelOf(tasks[u].index) => TaskPath(t) # TaskPath(u))
    /\ [][\A t \in TaskIds, i \in Indices :
            (FetchSucceeds(t) /\ LabelOf(i) # LabelOf(tasks[t].index))
            => cache'[PathOf(i)] = cache[PathOf(i)]
         ]_vars

(* ------------------------------- C24 ---------------------------------- *)
\* The loading scenario: a positive cache lifetime within which the whole scenario
\* plays (the clock stands, no periodic refresh falls due), any toggles, requests
\* that succeed or fail, file I/O that works.
InitLoading ==
    /\ Init
    /\ cache_lifetime > 0

TaskStepLoading ==
    \E t \in 1..Len(tasks) :
        \/ TaskStart(t)
        \/ \E n \in 0..MaxElems : TaskFetchOk(t, n)
        \/ TaskFetchFail(t)
        \/ TaskAge(t)
        \/ TaskRead(t)

NextLoading ==
    \/ \E index \in Indices : Click(index)
    \/ Update
    \/ TaskStepLoading

\* tokio runs every spawned task to its end; Update events keep being processed
SpecLoading ==
    /\ InitLoading
    /\ [][NextLoading]_vars
    /\ WF_vars(Update)
    /\ WF_vars(TaskStepLoading)

\* the step polls the result of the task whose handle entry i holds
OwnResult(i, m) == m \in Received /\ m.index = i /\ m.task = list_entries[i].abort_handle

\* C24: every entry that is Loading eventually is not, and the step in which it
\* leaves Loading is either a click on it, which leaves it Unselected, or the
\* poll of the result of its own fetch, which leaves it Selected when the fetch
\* succeeded and Unselected when it failed.
C24_LoadingEnds ==
    /\ \A i \in Indices : list_entries[i].loading ~> ~list_entries[i].loading
    /\ [][\A i \in Indices :
            (list_entries[i].loading /\ ~list_entries'[i].loading)
            => IF Click(i)
                 THEN StateOf(list_entries'[i]) = "Unselected"
                 ELSE \E m \in Received :
                        /\ PollStep /\ OwnResult(i, m)
                        /\ StateOf(list_entries'[i]) =
                             IF m.elements.some THEN "Selected" ELSE "Unselected"
         ]_vars

(* ------------------------------- C25 ---------------------------------- *)
\* The timer scenario: any cache lifetime, a clock that runs for two of the
\* longest lifetimes (so that a refresh can follow a refresh), an empty cache
\* directory, entries selected while no task is running, requests that succeed.
InitTimer ==
    /\ Init
    /\ \A path \in CachePaths : cache[path] = NoFile

TimerTick ==
    /\ now < 2 * MaxLifetime
    /\ now' = now + 1
    /\ UNCHANGED <<list_entries, objects, update_channel, last_update_instant,
                   cache_lifetime, tasks, cache, left_from, selected_object_index,
                   hovered_object_index, unpropagatable, crashed, calc>>

NextTimer ==
    \/ \E index \in Indices : SelectIdle(index)
    \/ Update
    \/ TimerTick
    \/ TaskStepRefresh

SpecTimer == InitTimer /\ [][NextTimer]_vars

\* C25: an Update event fires a refresh (the roster emptied, one task spawned for
\* each selected entry) exactly when at least one cache lifetime has elapsed
\* since last_update_instant, which then becomes the time of this refresh; no
\* other Update and no toggle changes last_update_instant, so it is the time of
\* the previous refresh (or of startup) and two consecutive refreshes are at
\* least one cache lifetime apart.
C25_RefreshTimer ==
    /\ [][Update
          => IF now - last_update_instant >= cache_lifetime
               THEN /\ last_update_instant' = now
                    /\ objects' = <<>>
                    /\ \A i \in Indices :
                         Cardinality(SpawnedFor(i)) =
                           IF list_entries'[i].selected THEN 1 ELSE 0
               ELSE /\ last_update_instant' = last_update_instant
                    /\ Len(tasks') = Len(tasks)
         ]_vars
    /\ [][last_update_instant' # last_update_instant
          => /\ Update
             /\ last_update_instant' = now
             /\ last_update_instant' - last_update_instant >= cache_lifetime
         ]_vars
    /\ [][(\E i \in Indices : Click(i)) => last_update_instant' = last_update_instant]_vars

\* a positive lifetime, an entry selected after the refresh that fell due one
\* lifetime after startup, and loaded again by the refresh one lifetime later
C25_Witness ==
    /\ cache_lifetime > 0
    /\ last_update_instant = 2 * cache_lifetime
    /\ \E i \in Indices :
          /\ TasksOf(i) = {1, 2}
          /\ tasks[2] = NewTask(i)
          /\ list_entries[i].loading
          /\ objects = <<>>

(* ------------------------------- C26 ---------------------------------- *)
\* calculate_ground_track has returned calc.out for an object whose orbital
\* period is calc.limit whole minutes
TrackDone == calc.fn = "calculate_ground_track" /\ calc.status = "done"

\* C26: the ground track of an object whose orbital period is N whole minutes is
\* the points of the minutes 1, 2, ..., N after the query time, in this order: N
\* points, the last one a full period after the query time.
C26_TrackCoversPeriod ==
    TrackDone => calc.out = [k \in 1..calc.limit |-> k]

(* ------------------------------- C27 ---------------------------------- *)
\* C27: in every reachable state the roster holds each element set of a selected
\* entry at most once (no two roster positions hold the same object of it).
C27_NoDuplicates ==
    \A k1, k2 \in 1..Len(objects) :
        (k1 # k2 /\ list_entries[objects[k1].entry].selected)
        => objects[k1] # objects[k2]

(* ------------------------------- C28 ---------------------------------- *)
RECURSIVE RosterOf(_, _)
\* the roster after the entries of `loaded` from index on were loaded in this
\* order, each from a record of MaxElems element sets
RosterOf(loaded, index) ==
    IF index > NumEntries
      THEN <<>>
      ELSE (IF index \in loaded
              THEN Materialize([index |-> index, elements |-> Some(MaxElems)])
              ELSE <<>>) \o RosterOf(loaded, index + 1)

\* The toggle scenario starts in the middle of a run: some entries were selected
\* and have been loaded from their cache records (they are Selected, their
\* objects in the roster, their tasks finished and polled), the others are
\* Unselected; every record is valid and stays so (the clock stands, no periodic
\* refresh falls due). The user toggles at will.
InitToggle ==
    /\ \E loaded \in SUBSET Indices :
          /\ list_entries =
               [i \in Indices |->
                  [EntryFrom(GroupFrom(ConfigGroups[i])) EXCEPT !.selected = i \in loaded]]
          /\ objects = RosterOf(loaded, 1)
    /\ update_channel = <<>>
    /\ last_update_instant = 0
    /\ cache_lifetime \in 1..MaxLifetime
    /\ tasks = <<>>
    /\ cache = [path \in CachePaths |-> File(MaxElems, 0)]
    /\ now = 0
    /\ left_from = [i \in Indices |-> "-"]
    /\ selected_object_index = NoIndex
    /\ hovered_object_index = NoIndex
    /\ unpropagatable = {}
    /\ crashed = FALSE
    /\ calc = NoCalc

NextToggle ==
    \/ \E index \in Indices : Click(index)
    \/ Update
    \/ TaskStepE2E

SpecToggle == InitToggle /\ [][NextToggle]_vars

\* the roster positions of entry j hold the same objects before and after the step
SameObjectsOf(j) ==
    SelectSeq(objects', LAMBDA o : o.entry = j) = SelectSeq(objects, LAMBDA o : o.entry = j)

C29_AtMostOneRequest == \A t \in TaskIds : tasks[t].net <= 1

(* ------------------------------- C30 ---------------------------------- *)
\* C30: in every reachable state an entry whose loading flag is set has its
\* selected flag set.
C30_LoadingImpliesSelected ==
    \A i \in Indices : list_entries[i].loading => list_entries[i].selected

\* an entry was deselected while Loading, its task cancelled, and was selected
\* again: it is loading on a new task
C30_Witness ==
    \E i \in Indices :
        /\ list_entries[i].loading /\ list_entries[i].selected
        /\ \E t \in TasksOf(i) : tasks[t].pc = "aborted"
        /\ list_entries[i].abort_handle # NoHandle
        /\ InFlight(list_entries[i].abort_handle)
====
